---- MODULE Spec2Model ----
(***************************************************************************)
(* Model of the MAvis Hospital benchmark harness: run_benchmark.py (the    *)
(* Excel-driven mode and the legacy directory-scan mode) and               *)
(* ci_benchmark.py (directory scan).                                       *)
(*                                                                         *)
(* Text is modelled as a sequence of one-character strings, so that the    *)
(* string operations of the source (split, strip, replace, "in", the       *)
(* regular expressions, int(), float(), f-strings) are computed and not    *)
(* assumed.  A line of output is such a sequence; an output is a sequence  *)
(* of lines (the result of str.splitlines()).                              *)
(***************************************************************************)
EXTENDS Integers, Sequences, FiniteSets, TLC

(***************************************************************************)
(* Characters and Python string primitives                                 *)
(***************************************************************************)
\* F(e), with e evaluated once before F is applied (Python evaluates the
\* argument of a call before the call)
Eager(F(_), e) == CHOOSE r \in {F(x) : x \in {e}} : TRUE

Digits == {"0", "1", "2", "3", "4", "5", "6", "7", "8", "9"}

Whitespace == {" ", "\t"}

DigitVal(c) ==
    CASE c = "0" -> 0 [] c = "1" -> 1 [] c = "2" -> 2 [] c = "3" -> 3
      [] c = "4" -> 4 [] c = "5" -> 5 [] c = "6" -> 6 [] c = "7" -> 7
      [] c = "8" -> 8 [] c = "9" -> 9

DigitChar(d) ==
    CASE d = 0 -> "0" [] d = 1 -> "1" [] d = 2 -> "2" [] d = 3 -> "3"
      [] d = 4 -> "4" [] d = 5 -> "5" [] d = 6 -> "6" [] d = 7 -> "7"
      [] d = 8 -> "8" [] d = 9 -> "9"

\* str(n) for a natural number n
RECURSIVE IntToStr(_)
IntToStr(n) ==
    IF n < 10 THEN <<DigitChar(n)>>
    ELSE IntToStr(n \div 10) \o <<DigitChar(n % 10)>>

\* the value of a non-empty string of ASCII digits
RECURSIVE StrToInt(_)
StrToInt(s) ==
    IF Len(s) = 0 THEN 0
    ELSE 10 * StrToInt(SubSeq(s, 1, Len(s) - 1)) + DigitVal(s[Len(s)])

\* pat in s : index of the first occurrence of pat in s, 0 when there is none
Find(s, pat) ==
    LET n == Len(s) - Len(pat) + 1
        hits == {i \in 1..n : SubSeq(s, i, i + Len(pat) - 1) = pat}
    IN  IF n < 1 \/ hits = {} THEN 0
        ELSE CHOOSE i \in hits : \A j \in hits : i <= j

Contains(s, pat) == Find(s, pat) # 0

\* s.split(sep)[1], defined when sep occurs in s
SplitSecond(s, sep) ==
    LET first == Find(s, sep)
        rest == SubSeq(s, first + Len(sep), Len(s))
        second == Find(rest, sep)
    IN  IF second = 0 THEN rest ELSE SubSeq(rest, 1, second - 1)

\* s.strip(chars)
StripChars(s, chars) ==
    LET keep == {i \in 1..Len(s) : s[i] \notin chars}
    IN  IF keep = {} THEN << >>
        ELSE LET lo == CHOOSE i \in keep : \A j \in keep : i <= j
                 hi == CHOOSE i \in keep : \A j \in keep : j <= i
             IN  SubSeq(s, lo, hi)

\* s.strip()
Strip(s) == StripChars(s, Whitespace)

\* s.replace(c, "") for a one-character c
RECURSIVE RemoveChar(_, _)
RemoveChar(s, c) ==
    IF Len(s) = 0 THEN << >>
    ELSE IF s[1] = c THEN RemoveChar(Tail(s), c)
    ELSE <<s[1]>> \o RemoveChar(Tail(s), c)

LowerChar(c) ==
    CASE c = "A" -> "a" [] c = "B" -> "b" [] c = "D" -> "d" [] c = "E" -> "e"
      [] c = "F" -> "f" [] c = "G" -> "g" [] c = "R" -> "r" [] c = "S" -> "s"
      [] c = "T" -> "t" [] c = "W" -> "w" [] c = "Y" -> "y"
      [] OTHER -> c

\* s.lower()
Lower(s) == [i \in 1..Len(s) |-> LowerChar(s[i])]

(***************************************************************************)
(* Markers of the solver's log format                                      *)
(***************************************************************************)
FOUND_MARK == <<"F", "o", "u", "n", "d", " ", "s", "o", "l", "u", "t", "i", "o", "n", " ", "o", "f", " ", "l", "e", "n", "g", "t", "h">>

LENGTH_WORD == <<"l", "e", "n", "g", "t", "h">>

EXPANDED_MARK == <<"#", "E", "x", "p", "a", "n", "d", "e", "d", ":">>

FRONTIER_MARK == <<"#", "F", "r", "o", "n", "t", "i", "e", "r", ":">>

GENERATED_MARK == <<"#", "G", "e", "n", "e", "r", "a", "t", "e", "d", ":">>

TIME_MARK == <<"T", "i", "m", "e", ":">>

MEMORY_MARK == <<"M", "e", "m", "o", "r", "y", " ", "u", "s", "e", "d", ":">>

UNABLE_MARK == <<"U", "n", "a", "b", "l", "e", " ", "t", "o", " ", "s", "o", "l", "v", "e", " ", "l", "e", "v", "e", "l">>

\* the "unknown" marker every metric starts with
UNKNOWN == <<"-">>

(***************************************************************************)
(* Regular expressions of parse_output                                     *)
(***************************************************************************)
\* the first index >= k of s whose character is outside chars, Len(s)+1 if none
SkipWhile(s, k, chars) ==
    LET stops == {i \in k..Len(s) : s[i] \notin chars}
    IN  IF stops = {} THEN Len(s) + 1
        ELSE CHOOSE i \in stops : \A j \in stops : i <= j

NoMatch == [ok |-> FALSE, group |-> << >>]

\* re.search(label \s* ([class]+), line): the leftmost match, group(1)
SearchCount(line, label, class) ==
    LET n == Len(line) - Len(label) + 1
        GroupAt(i) ==
            LET k == SkipWhile(line, i + Len(label), Whitespace)
                e == SkipWhile(line, k, class)
            IN  [ok |-> e > k, group |-> SubSeq(line, k, e - 1)]
        hits == {i \in 1..n : /\ SubSeq(line, i, i + Len(label) - 1) = label
                              /\ GroupAt(i).ok}
    IN  IF n < 1 \/ hits = {} THEN NoMatch
        ELSE GroupAt(CHOOSE i \in hits : \A j \in hits : i <= j)

\* re.search(r"Time:\s*([\d.]+)\s*s", line): the leftmost match, group(1)
SearchTime(line) ==
    LET n == Len(line) - Len(TIME_MARK) + 1
        GroupAt(i) ==
            LET k == SkipWhile(line, i + Len(TIME_MARK), Whitespace)
                e == SkipWhile(line, k, Digits \cup {"."})
                f == SkipWhile(line, e, Whitespace)
            IN  [ok |-> e > k /\ f <= Len(line) /\ line[f] = "s",
                 group |-> SubSeq(line, k, e - 1)]
        hits == {i \in 1..n : /\ SubSeq(line, i, i + Len(TIME_MARK) - 1) = TIME_MARK
                              /\ GroupAt(i).ok}
    IN  IF n < 1 \/ hits = {} THEN NoMatch
        ELSE GroupAt(CHOOSE i \in hits : \A j \in hits : i <= j)

(***************************************************************************)
(* parse_output                                                            *)
(***************************************************************************)
ParseInit ==
    [solved |-> FALSE, solution_length |-> UNKNOWN, time |-> UNKNOWN,
     memory |-> UNKNOWN, expanded |-> UNKNOWN, frontier_size |-> UNKNOWN,
     generated |-> UNKNOWN]

\* the "Found solution of length" branch of the loop body
ParseFound(acc, line) ==
    IF Contains(line, FOUND_MARK)
    THEN [acc EXCEPT !.solved = TRUE,
                     !.solution_length =
                         RemoveChar(StripChars(Strip(SplitSecond(line, LENGTH_WORD)),
                                               {".", ","}), ",")]
    ELSE acc

\* variant: a statistics line replaces the fields, a field it omits becomes
\* unknown
ParseStats_Replace(acc, line) ==
    IF Contains(line, EXPANDED_MARK)
    THEN LET m_exp == SearchCount(line, EXPANDED_MARK, Digits \cup {","})
             m_frt == SearchCount(line, FRONTIER_MARK, Digits \cup {","})
             m_gen == SearchCount(line, GENERATED_MARK, Digits \cup {","})
             m_time == SearchTime(line)
         IN  [acc EXCEPT
                !.expanded = IF m_exp.ok THEN RemoveChar(m_exp.group, ",") ELSE UNKNOWN,
                !.frontier_size = IF m_frt.ok THEN RemoveChar(m_frt.group, ",") ELSE UNKNOWN,
                !.generated = IF m_gen.ok THEN RemoveChar(m_gen.group, ",") ELSE UNKNOWN,
                !.time = IF m_time.ok THEN m_time.group ELSE UNKNOWN]
    ELSE acc

\* the "#Expanded:" branch of the loop body
ParseStats(acc, line) ==
    IF Contains(line, EXPANDED_MARK)
    THEN LET m_exp == SearchCount(line, EXPANDED_MARK, Digits \cup {","})
             m_frt == SearchCount(line, FRONTIER_MARK, Digits \cup {","})
             m_gen == SearchCount(line, GENERATED_MARK, Digits \cup {","})
             m_time == SearchTime(line)
         IN  [acc EXCEPT
                !.expanded = IF m_exp.ok THEN RemoveChar(m_exp.group, ",") ELSE @,
                !.frontier_size = IF m_frt.ok THEN RemoveChar(m_frt.group, ",") ELSE @,
                !.generated = IF m_gen.ok THEN RemoveChar(m_gen.group, ",") ELSE @,
                !.time = IF m_time.ok THEN m_time.group ELSE @]
    ELSE acc

\* the "Memory used:" branch of the loop body
ParseMemory(acc, line) ==
    IF Contains(line, MEMORY_MARK)
    THEN [acc EXCEPT !.memory = Strip(SplitSecond(line, MEMORY_MARK))]
    ELSE acc

\* variant: the failure marker does not reset the solved flag
ParseUnable_Ignored(acc, line) == acc

\* the "Unable to solve level" branch of the loop body
ParseUnable(acc, line) ==
    IF Contains(line, UNABLE_MARK) THEN [acc EXCEPT !.solved = FALSE] ELSE acc

\* one iteration of "for line in output.splitlines()"
ParseLine(acc, line) ==
    ParseUnable(ParseMemory(ParseStats(ParseFound(acc, line), line), line), line)

RECURSIVE ParseLines(_, _)
ParseLines(acc, lines) ==
    IF Len(lines) = 0 THEN acc
    ELSE ParseLines(ParseLine(acc, Head(lines)), Tail(lines))

\* the dictionary parse_output returns (frontier_size is dropped)
ReturnedMetrics(acc) ==
    [solved |-> acc.solved, solution_length |-> acc.solution_length,
     time |-> acc.time, memory |-> acc.memory, expanded |-> acc.expanded,
     generated |-> acc.generated]

parse_output(lines) == Eager(ReturnedMetrics, ParseLines(ParseInit, lines))

(***************************************************************************)
(* Configuration                                                           *)
(***************************************************************************)
bfs == <<"b", "f", "s">>

dfs == <<"d", "f", "s">>

astar == <<"a", "s", "t", "a", "r">>

wastar == <<"w", "a", "s", "t", "a", "r">>

greedy == <<"g", "r", "e", "e", "d", "y">>

VALID_STRATEGIES == {bfs, dfs, astar, wastar, greedy}

DEFAULT_STRATEGY == bfs

DEFAULT_TIMEOUT == 180

\* the "extra grace period" added to the timeout of subprocess.run
GRACE == 10

LVL_EXT == <<".", "l", "v", "l">>

(***************************************************************************)
(* _to_number: the value stored in a result cell                           *)
(***************************************************************************)
Blank == [t |-> "none"]

SignChars == {"+", "-"}

\* the text without one leading sign
Unsigned(s) == IF Len(s) > 0 /\ s[1] \in SignChars THEN Tail(s) ELSE s

Negative(s) == Len(s) > 0 /\ s[1] = "-"

\* digits, single underscores allowed between two digits
IsDigitGroup(s) ==
    /\ Len(s) > 0
    /\ \A i \in 1..Len(s) : s[i] \in Digits \cup {"_"}
    /\ s[1] \in Digits /\ s[Len(s)] \in Digits
    /\ \A i \in 1..(Len(s) - 1) : ~(s[i] = "_" /\ s[i + 1] = "_")

\* int(s) does not raise ValueError (base 10, ASCII)
IsIntLiteral(s) == Eager(IsDigitGroup, Unsigned(Strip(s)))

IntValue(s) ==
    IF Negative(Strip(s))
    THEN 0 - Eager(StrToInt, RemoveChar(Unsigned(Strip(s)), "_"))
    ELSE Eager(StrToInt, RemoveChar(Unsigned(Strip(s)), "_"))

\* float(s) does not raise ValueError, for a text that contains "." and no
\* exponent: [sign] digits "." [digits]  or  [sign] [digits] "." digits
\* u is the stripped text without its sign
IntPart(u) == SubSeq(u, 1, Find(u, <<".">>) - 1)

FracPart(u) == SubSeq(u, Find(u, <<".">>) + 1, Len(u))

IsFloatText(u) ==
    /\ Contains(u, <<".">>)
    /\ Len(IntPart(u)) = 0 \/ Eager(IsDigitGroup, IntPart(u))
    /\ Len(FracPart(u)) = 0 \/ Eager(IsDigitGroup, FracPart(u))
    /\ Len(IntPart(u)) + Len(FracPart(u)) > 0

IsFloatLiteral(s) == Eager(IsFloatText, Unsigned(Strip(s)))

Mantissa(u) ==
    Eager(StrToInt, RemoveChar(IntPart(u), "_") \o RemoveChar(FracPart(u), "_"))

FracDigits(u) == Len(RemoveChar(FracPart(u), "_"))

\* the float as mantissa / 10^frac
FloatValue(s) ==
    [t |-> "float",
     mant |-> IF Negative(Strip(s))
              THEN 0 - Eager(Mantissa, Unsigned(Strip(s)))
              ELSE Eager(Mantissa, Unsigned(Strip(s))),
     frac |-> Eager(FracDigits, Unsigned(Strip(s)))]

\* variant: a value that is not a number is dropped instead of returned
_to_number_DropText(val) ==
    IF val = UNKNOWN THEN Blank
    ELSE IF Contains(val, <<".">>)
         THEN IF IsFloatLiteral(val) THEN FloatValue(val) ELSE Blank
         ELSE IF IsIntLiteral(val) THEN [t |-> "int", n |-> IntValue(val)]
              ELSE Blank

_to_number(val) ==
    IF val = UNKNOWN THEN Blank
    ELSE IF Contains(val, <<".">>)
         THEN IF IsFloatLiteral(val) THEN FloatValue(val)
              ELSE [t |-> "str", s |-> val]
         ELSE IF IsIntLiteral(val) THEN [t |-> "int", n |-> IntValue(val)]
              ELSE [t |-> "str", s |-> val]

(***************************************************************************)
(* run_level                                                               *)
(*                                                                         *)
(* proc is what the external process does: raises (starting it fails with  *)
(* an exception), duration (tenths of a second until it exits),            *)
(* returncode, stdout and stderr (sequences of lines).                     *)
(***************************************************************************)
\* variant: a process that exits exactly at the hard deadline is timed out
TimeoutExpired_AtDeadline(proc, timeout) == proc.duration >= (timeout + GRACE) * 10

\* subprocess.run(..., timeout = timeout + 10) raises TimeoutExpired
TimeoutExpired(proc, timeout) == proc.duration > (timeout + GRACE) * 10

\* f"{wall_time:.1f}" for a wall time in tenths of a second
FormatWall(tenths) == IntToStr(tenths \div 10) \o <<".">> \o IntToStr(tenths % 10)

\* (result.stdout or "") + "\n" + (result.stderr or ""), as lines
full_output(proc) == proc.stdout \o proc.stderr

\* variant: the exit code is tested alone, before the solved flag
ClassifyExit_ExitCodeFirst(returncode, solved) ==
    IF returncode # 0 THEN "Error"
    ELSE IF solved THEN "Solved"
    ELSE "No solution"

\* the if / elif / else on (returncode, solved) of the normal path
ClassifyExit(returncode, solved) ==
    IF returncode # 0 /\ ~solved THEN "Error"
    ELSE IF solved THEN "Solved"
    ELSE "No solution"

TimeoutMetrics(timeout) ==
    [status |-> "Timeout", solved |-> FALSE, solution_length |-> UNKNOWN,
     time |-> <<">">> \o IntToStr(timeout),
     wall_time |-> <<">">> \o IntToStr(timeout),
     memory |-> UNKNOWN, expanded |-> UNKNOWN, generated |-> UNKNOWN]

ExceptionMetrics ==
    [status |-> "Exception", solved |-> FALSE, solution_length |-> UNKNOWN,
     time |-> UNKNOWN, wall_time |-> UNKNOWN,
     memory |-> UNKNOWN, expanded |-> UNKNOWN, generated |-> UNKNOWN]

\* the normal path of run_level: status and wall_time are added to metrics
ExitMetrics(proc, metrics) ==
    [status |-> ClassifyExit(proc.returncode, metrics.solved),
     solved |-> metrics.solved,
     solution_length |-> metrics.solution_length,
     time |-> metrics.time,
     wall_time |-> FormatWall(proc.duration),
     memory |-> metrics.memory,
     expanded |-> metrics.expanded,
     generated |-> metrics.generated]

run_level(proc, timeout) ==
    IF proc.raises THEN ExceptionMetrics
    ELSE IF TimeoutExpired(proc, timeout) THEN TimeoutMetrics(timeout)
    ELSE Eager(LAMBDA metrics : ExitMetrics(proc, metrics),
               parse_output(full_output(proc)))

\* the metrics of a skipped task: Python's None
NoMetrics == [none |-> TRUE]

(***************************************************************************)
(* The structured table: a workbook is a sequence of sheets, a sheet has a *)
(* title and rows; rows[i] is spreadsheet row i + 1 (row 1 is the header). *)
(* A cell is Blank (None), text, or a number written by _to_number.        *)
(***************************************************************************)
Text(s) == [t |-> "str", s |-> s]

\* Python truthiness of a cell value that is None or a string
Truthy(cell) == cell.t = "str" /\ Len(cell.s) > 0

\* the tasks of one sheet, rows row_idx..max_row
RECURSIVE SheetTasks(_, _)
SheetTasks(ws, row_idx) ==
    IF row_idx > Len(ws.rows) + 1 THEN << >>
    ELSE LET cell_level == ws.rows[row_idx - 1].level
             cell_strategy == ws.rows[row_idx - 1].strategy
             here == IF Truthy(cell_level) /\ Truthy(cell_strategy)
                     THEN <<[level |-> Strip(cell_level.s),
                             strategy |-> Lower(Strip(cell_strategy.s)),
                             sheet |-> ws.title,
                             row |-> row_idx]>>
                     ELSE << >>
         IN  here \o SheetTasks(ws, row_idx + 1)

RECURSIVE read_xlsx_tasks(_)
read_xlsx_tasks(book) ==
    IF Len(book) = 0 THEN << >>
    ELSE SheetTasks(Head(book), 2) \o read_xlsx_tasks(Tail(book))

\* variant: the cells are written to the first sheet, whatever the task's sheet
WriteRow_FirstSheet(book, task, metrics) ==
    [book EXCEPT ![1].rows[task.row - 1] =
        [@ EXCEPT !.generated = Eager(_to_number, metrics.generated),
                  !.time = Eager(_to_number, metrics.time),
                  !.solution_length =
                      Eager(_to_number, metrics.solution_length)]]

\* the three cell assignments of write_xlsx_results for one (task, metrics)
WriteRow(book, task, metrics) ==
    LET k == CHOOSE i \in 1..Len(book) : book[i].title = task.sheet
    IN  [book EXCEPT ![k].rows[task.row - 1] =
            [@ EXCEPT !.generated = Eager(_to_number, metrics.generated),
                      !.time = Eager(_to_number, metrics.time),
                      !.solution_length =
                          Eager(_to_number, metrics.solution_length)]]

RECURSIVE write_xlsx_results(_, _)
write_xlsx_results(book, trs) ==
    IF Len(trs) = 0 THEN book
    ELSE IF Head(trs).metrics = NoMetrics
         THEN write_xlsx_results(book, Tail(trs))
         ELSE Eager(LAMBDA written : write_xlsx_results(written, Tail(trs)),
                    WriteRow(book, Head(trs).task, Head(trs).metrics))

(***************************************************************************)
(* Level files: a file levels/<name>.lvl is represented by <name>; files   *)
(* is the set of level files on disk.                                      *)
(***************************************************************************)
NoPath == [found |-> FALSE, name |-> << >>]

find_level_file(level_name, files) ==
    IF level_name \in files THEN [found |-> TRUE, name |-> level_name]
    ELSE NoPath

\* code points, for the order of sorted()
AsciiOrder == <<".", "0", "1", "2", "3", "4", "5", "6", "7", "8", "9",
                "A", "M", "S", "Z", "l", "v">>

Code(c) == CHOOSE i \in 1..Len(AsciiOrder) : AsciiOrder[i] = c

\* a < b for Python strings
RECURSIVE LexLess(_, _)
LexLess(a, b) ==
    IF Len(b) = 0 THEN FALSE
    ELSE IF Len(a) = 0 THEN TRUE
    ELSE IF a[1] # b[1] THEN Code(a[1]) < Code(b[1])
    ELSE LexLess(Tail(a), Tail(b))

\* sorted(glob.glob(pattern))
RECURSIVE SortedFiles(_)
SortedFiles(S) ==
    IF S = {} THEN << >>
    ELSE LET least == CHOOSE a \in S : \A b \in S \ {a} : LexLess(a, b)
         IN  <<least>> \o SortedFiles(S \ {least})

\* os.path.basename(l).startswith(prefix)
StartsWith(name, prefix) ==
    /\ Len(prefix) <= Len(name) + Len(LVL_EXT)
    /\ SubSeq(name \o LVL_EXT, 1, Len(prefix)) = prefix

\* [l for l in levels if os.path.basename(l).startswith(prefix)]
RECURSIVE FilterLevels(_, _)
FilterLevels(ls, prefix) ==
    IF Len(ls) = 0 THEN << >>
    ELSE (IF StartsWith(Head(ls), prefix) THEN <<Head(ls)>> ELSE << >>)
         \o FilterLevels(Tail(ls), prefix)

\* s.replace(pat, "")
RECURSIVE RemoveAll(_, _)
RemoveAll(s, pat) ==
    LET i == Find(s, pat)
    IN  IF i = 0 THEN s
        ELSE SubSeq(s, 1, i - 1) \o RemoveAll(SubSeq(s, i + Len(pat), Len(s)), pat)

\* os.path.basename(lvl).replace(".lvl", "")
LevelName(lvl) == RemoveAll(lvl \o LVL_EXT, LVL_EXT)

(***************************************************************************)
(* Bounds and input sets                                                   *)
(***************************************************************************)
\* most data rows of a workbook (all sheets together)
MaxRows == 2

\* most lines of an output given to parse_output alone
MaxLines == 3

MA1 == <<"M", "A", "1">>

MA2 == <<"M", "A", "2">>

SA1 == <<"S", "A", "1">>

\* what the levels directory may hold
Disks == {{}, {SA1}, {MA2, SA1, MA1}}

\* a strategy name outside VALID_STRATEGIES
idastar == <<"i", "d", "a", "s", "t", "a", "r">>

StrategyArgs == {greedy, idastar}

Timeouts == {5, DEFAULT_TIMEOUT}

NoFilter == [given |-> FALSE, prefix |-> << >>]

Filters == {[given |-> TRUE, prefix |-> <<"M", "A">>],
            [given |-> TRUE, prefix |-> <<"S", "A">>]}

\* lines of solver output
LineFound == <<"F", "o", "u", "n", "d", " ", "s", "o", "l", "u", "t", "i", "o", "n", " ", "o", "f", " ", "l", "e", "n", "g", "t", "h", " ", "1", "2", ".">>

LineFoundComma == <<"F", "o", "u", "n", "d", " ", "s", "o", "l", "u", "t", "i", "o", "n", " ", "o", "f", " ", "l", "e", "n", "g", "t", "h", " ", "1", ",", "2", "3", "4">>

LineFoundText == <<"F", "o", "u", "n", "d", " ", "s", "o", "l", "u", "t", "i", "o", "n", " ", "o", "f", " ", "l", "e", "n", "g", "t", "h", " ", "1", "2", " ", "m", "o", "v", "e", "s">>

LineFoundEmpty == <<"F", "o", "u", "n", "d", " ", "s", "o", "l", "u", "t", "i", "o", "n", " ", "o", "f", " ", "l", "e", "n", "g", "t", "h">>

LineStats == <<"#", "E", "x", "p", "a", "n", "d", "e", "d", ":", " ", "1", ",", "0", "2", "4", ",", " ", "#", "F", "r", "o", "n", "t", "i", "e", "r", ":", " ", "1", "2", ",", " ", "#", "G", "e", "n", "e", "r", "a", "t", "e", "d", ":", " ", "2", ",", "0", "4", "8", ",", " ", "T", "i", "m", "e", ":", " ", "1", ".", "5", "0", "0", " ", "s">>

LineStatsPart == <<"#", "E", "x", "p", "a", "n", "d", "e", "d", ":", " ", "7", ",", " ", "T", "i", "m", "e", ":", " ", "0", ".", "2", " ", "s">>

LineStatsBad == <<"#", "E", "x", "p", "a", "n", "d", "e", "d", ":", " ", "x", " ", "#", "G", "e", "n", "e", "r", "a", "t", "e", "d", ":", " ", ",", ",", " ", "T", "i", "m", "e", ":", " ", "1", ".", "2", ".", "3", " ", "s">>

LineGenOnly == <<"#", "G", "e", "n", "e", "r", "a", "t", "e", "d", ":", " ", "5">>

LineMemory == <<"M", "e", "m", "o", "r", "y", " ", "u", "s", "e", "d", ":", " ", "1", "2", " ", "M", "B">>

LineUnable == <<"U", "n", "a", "b", "l", "e", " ", "t", "o", " ", "s", "o", "l", "v", "e", " ", "l", "e", "v", "e", "l">>

LineFoundUnable == <<"F", "o", "u", "n", "d", " ", "s", "o", "l", "u", "t", "i", "o", "n", " ", "o", "f", " ", "l", "e", "n", "g", "t", "h", " ", "3", " ", "U", "n", "a", "b", "l", "e", " ", "t", "o", " ", "s", "o", "l", "v", "e", " ", "l", "e", "v", "e", "l">>

LineNoise == <<"S", "t", "a", "r", "t", "i", "n", "g", " ", "B", "F", "S">>

\* what the solver prints in a batch run: stdout of the server, stderr of the client
BatchOutputs ==
    {[stdout |-> << >>, stderr |-> << >>],
     [stdout |-> <<LineNoise>>, stderr |-> <<LineStats, LineFound, LineMemory>>],
     [stdout |-> <<LineFoundText>>, stderr |-> <<LineStatsBad, LineUnable>>],
     [stdout |-> << >>, stderr |-> <<LineFoundText>>]}

\* exit at the hard deadline, and one tenth of a second after it
Durations(timeout) == {(timeout + GRACE) * 10, (timeout + GRACE) * 10 + 1}

NoProc == [raises |-> FALSE, duration |-> 0, returncode |-> 0,
           stdout |-> << >>, stderr |-> << >>]

\* a process that is killed after the hard deadline has no exit status, and
\* two of its partial outputs are enough (nothing, and a complete solution)
BatchProcs(timeout) ==
    {[NoProc EXCEPT !.raises = TRUE]}
    \cup {p \in {[raises |-> FALSE, duration |-> d, returncode |-> rc,
                  stdout |-> o.stdout, stderr |-> o.stderr] :
                    d \in Durations(timeout), rc \in {0, 1}, o \in BatchOutputs} :
              \/ p.duration = (timeout + GRACE) * 10
              \/ p.returncode = 0 /\ p.stdout \in {<< >>, <<LineNoise>>}}

\* result cells left in the table by an earlier batch
Stale == [t |-> "int", n |-> 99]

Row(level, strategy) ==
    [level |-> level, strategy |-> strategy,
     generated |-> Stale, time |-> Stale, solution_length |-> Stale]

RowChoices ==
    {Row(Text(<<" ", "S", "A", "1", " ">>), Text(<<" ", "D", "F", "S">>)),
     Row(Text(MA1), Text(idastar)),
     Row(Text(MA2), Text(astar)),
     Row(Text(SA1), Blank)}

\* a sheet lists a row once
RowSeqs(n) ==
    {rs \in UNION {[1..k -> RowChoices] : k \in 0..n} :
        \A i, j \in 1..Len(rs) : i # j => rs[i] # rs[j]}

\* one sheet, or two sheets of which the second has one row
Workbooks ==
    {<<[title |-> "Sheet1", rows |-> rs]>> : rs \in RowSeqs(MaxRows)}
    \cup {<<[title |-> "Sheet1", rows |-> rs], [title |-> "Sheet2", rows |-> <<r>>]>> :
            rs \in RowSeqs(MaxRows - 1), r \in RowChoices}

\* the level files that exist when a table is run
TableFiles == {MA1, SA1}

LineChoices ==
    {LineFound, LineFoundComma, LineFoundText, LineFoundEmpty, LineStats,
     LineStatsPart, LineStatsBad, LineGenOnly, LineMemory, LineUnable,
     LineFoundUnable, LineNoise}

ParseOutputs == UNION {[1..k -> LineChoices] : k \in 0..MaxLines}

(***************************************************************************)
(* State                                                                   *)
(***************************************************************************)
VARIABLES
    mode,           \* "xlsx" / "legacy" (run_benchmark.py), "ci" (ci_benchmark.py)
    args,           \* the parsed command line: strategy, timeout, filter
    files,          \* the level files on disk
    book,           \* the workbook of --xlsx
    pc,             \* the position of the script
    tasks,          \* run_xlsx_mode: tasks
    levels,         \* run_legacy_mode / ci main: levels
    idx,            \* number of completed iterations of the batch loop
    task_results,   \* run_xlsx_mode: list of (task, metrics)
    results,        \* run_legacy_mode / ci main: list of (level_name, metrics)
    solved_count, skip_count, timeout_count, error_count,
    n_calls,        \* number of calls of run_level so far
    last_call,      \* the arguments of the latest call of run_level
    last_proc,      \* what the external process of the latest call did
    last_metrics,   \* what the latest call of run_level returned
    xlsx_saved,     \* wb.save(xlsx_path) has been executed
    report_written, \* the markdown report has been written
    exit_status,    \* the exit status of the process, -1 while it runs
    error_msg,      \* which fatal "ERROR: ..." diagnostic was printed, "none" if none
    output,         \* parse_output alone: its argument
    parsed          \* parse_output alone: its result

vars == <<mode, args, files, book, pc, tasks, levels, idx, task_results, results,
          solved_count, skip_count, timeout_count, error_count, n_calls,
          last_call, last_proc, last_metrics, xlsx_saved, report_written,
          exit_status, error_msg, output, parsed>>

batch_vars == <<tasks, levels, idx, task_results, results, solved_count,
                skip_count, timeout_count, error_count, n_calls, last_call,
                last_proc, last_metrics, xlsx_saved, report_written>>

NoCall == [level |-> << >>, strategy |-> << >>, timeout |-> 0]

NotParsed == [done |-> FALSE]

\* the state before the first statement of main()
Idle ==
    /\ tasks = << >> /\ levels = << >> /\ idx = 0
    /\ task_results = << >> /\ results = << >>
    /\ solved_count = 0 /\ skip_count = 0 /\ timeout_count = 0 /\ error_count = 0
    /\ n_calls = 0 /\ last_call = NoCall /\ last_proc = NoProc
    /\ last_metrics = NoMetrics
    /\ xlsx_saved = FALSE /\ report_written = FALSE
    /\ exit_status = -1
    /\ error_msg = "none"

Init ==
    /\ pc = "parse_args"
    /\ \/ /\ mode = "xlsx"
          /\ args \in [strategy : {DEFAULT_STRATEGY}, timeout : Timeouts,
                       filter : {NoFilter}]
          /\ files = TableFiles
          /\ book \in Workbooks
       \/ /\ mode = "legacy"
          /\ args \in [strategy : StrategyArgs, timeout : Timeouts,
                       filter : Filters \cup {NoFilter}]
          /\ files \in Disks
          /\ book = << >>
       \/ /\ mode = "ci"
          /\ args \in [strategy : StrategyArgs, timeout : Timeouts,
                       filter : Filters]
          /\ files \in Disks
          /\ book = << >>
    /\ Idle
    /\ output = << >>
    /\ parsed = NotParsed

\* print(diagnostic); sys.exit(code)
Exit(code, msg) == pc' = "exited" /\ exit_status' = code /\ error_msg' = msg

\* the script goes on to the statement at label
Goto(label) == pc' = label /\ UNCHANGED <<exit_status, error_msg>>

(***************************************************************************)
(* main: command line and prerequisites                                    *)
(***************************************************************************)
\* parser.parse_args(): choices=VALID_STRATEGIES makes argparse exit with 2
ParseArgs ==
    /\ pc = "parse_args"
    /\ IF args.strategy \notin VALID_STRATEGIES
       THEN Exit(2, "invalid choice")
       ELSE Goto("check_jar")
    /\ UNCHANGED <<mode, args, files, book, batch_vars, output, parsed>>

\* if not os.path.exists(SERVER_JAR): sys.exit(1)
CheckServerJar ==
    /\ pc = "check_jar"
    /\ \E exists \in BOOLEAN :
         IF ~exists THEN Exit(1, "server.jar not found")
         ELSE Goto("compile")
    /\ UNCHANGED <<mode, args, files, book, batch_vars, output, parsed>>

\* if args.compile: compile_client(), which exits with 1 when javac fails
CompileClient ==
    /\ pc = "compile"
    /\ \E compile \in BOOLEAN, javac_ok \in BOOLEAN :
         IF compile /\ ~javac_ok THEN Exit(1, "Compilation failed")
         ELSE Goto("check_classes")
    /\ UNCHANGED <<mode, args, files, book, batch_vars, output, parsed>>

\* if not glob.glob("searchclient/*.class"): sys.exit(1); then the mode is entered
CheckClassFiles ==
    /\ pc = "check_classes"
    /\ \E class_files \in BOOLEAN :
         IF ~class_files THEN Exit(1, "No .class files")
         ELSE Goto(IF mode = "xlsx" THEN "read_xlsx" ELSE "discover")
    /\ UNCHANGED <<mode, args, files, book, batch_vars, output, parsed>>

(***************************************************************************)
(* run_xlsx_mode                                                           *)
(***************************************************************************)
\* tasks = read_xlsx_tasks(args.xlsx); if not tasks: sys.exit(1)
ReadXlsx ==
    /\ pc = "read_xlsx" /\ mode = "xlsx"
    /\ \E readable \in BOOLEAN :
         IF ~readable THEN Exit(1, "xlsx not readable") /\ UNCHANGED tasks
         ELSE /\ tasks' = read_xlsx_tasks(book)
              /\ IF tasks' = << >> THEN Exit(1, "No tasks found")
                 ELSE Goto("xlsx_loop")
    /\ UNCHANGED <<mode, args, files, book, levels, idx, task_results, results,
                   solved_count, skip_count, timeout_count, error_count, n_calls,
                   last_call, last_proc, last_metrics, xlsx_saved,
                   report_written, output, parsed>>

\* variant: the "continue" is missing, the runner is called for the task too
XlsxSkipTask_NoContinue ==
    /\ pc = "xlsx_loop" /\ idx < Len(tasks)
    /\ ~find_level_file(tasks[idx + 1].level, files).found
    /\ task_results' = Append(task_results,
                              [task |-> tasks[idx + 1], metrics |-> NoMetrics])
    /\ skip_count' = skip_count + 1
    /\ n_calls' = n_calls + 1
    /\ idx' = idx + 1
    /\ UNCHANGED <<mode, args, files, book, pc, tasks, levels, results,
                   solved_count, timeout_count, error_count, last_call,
                   last_proc, last_metrics, xlsx_saved, report_written,
                   exit_status, error_msg, output, parsed>>

\* one iteration of "for task in tasks" whose level file is not found
XlsxSkipTask ==
    /\ pc = "xlsx_loop" /\ idx < Len(tasks)
    /\ LET task == tasks[idx + 1]
           lvl_path == find_level_file(task.level, files)
       IN  /\ ~lvl_path.found
           /\ task_results' = Append(task_results, [task |-> task, metrics |-> NoMetrics])
           /\ skip_count' = skip_count + 1
    /\ idx' = idx + 1
    /\ UNCHANGED <<mode, args, files, book, pc, tasks, levels, results,
                   solved_count, timeout_count, error_count, n_calls, last_call,
                   last_proc, last_metrics, xlsx_saved, report_written,
                   exit_status, error_msg, output, parsed>>

\* one iteration of "for task in tasks" that calls run_level
XlsxRunTask ==
    /\ pc = "xlsx_loop" /\ idx < Len(tasks)
    /\ LET task == tasks[idx + 1]
           lvl_path == find_level_file(task.level, files)
       IN  /\ lvl_path.found
           /\ \E proc \in BatchProcs(args.timeout) :
                \E metrics \in {run_level(proc, args.timeout)} :
                    /\ last_call' = [level |-> lvl_path.name,
                                     strategy |-> task.strategy,
                                     timeout |-> args.timeout]
                    /\ last_proc' = proc
                    /\ last_metrics' = metrics
                    /\ task_results' = Append(task_results,
                                              [task |-> task, metrics |-> metrics])
                    /\ IF metrics.solved
                       THEN /\ solved_count' = solved_count + 1
                            /\ UNCHANGED <<timeout_count, error_count>>
                       ELSE IF metrics.status = "Timeout"
                       THEN /\ timeout_count' = timeout_count + 1
                            /\ UNCHANGED <<solved_count, error_count>>
                       ELSE /\ error_count' = error_count + 1
                            /\ UNCHANGED <<solved_count, timeout_count>>
    /\ n_calls' = n_calls + 1
    /\ idx' = idx + 1
    /\ UNCHANGED <<mode, args, files, book, pc, tasks, levels, results,
                   skip_count, xlsx_saved, report_written, exit_status,
                   error_msg, output, parsed>>

\* write_xlsx_results(args.xlsx, task_results), after the loop
WriteXlsxResults ==
    /\ pc = "xlsx_loop" /\ idx = Len(tasks)
    /\ book' = write_xlsx_results(book, task_results)
    /\ xlsx_saved' = TRUE
    /\ pc' = "xlsx_report"
    /\ UNCHANGED <<mode, args, files, tasks, levels, idx, task_results, results,
                   solved_count, skip_count, timeout_count, error_count, n_calls,
                   last_call, last_proc, last_metrics, report_written,
                   exit_status, error_msg, output, parsed>>

\* the report is written; run_xlsx_mode and main return, or sys.exit(1) when
\* writing the file fails
XlsxReport ==
    /\ pc = "xlsx_report"
    /\ \E write_ok \in BOOLEAN :
         IF write_ok THEN report_written' = TRUE /\ Exit(0, "none")
         ELSE UNCHANGED report_written /\ Exit(1, "writing results file")
    /\ UNCHANGED <<mode, args, files, book, tasks, levels, idx, task_results,
                   results, solved_count, skip_count, timeout_count, error_count,
                   n_calls, last_call, last_proc, last_metrics, xlsx_saved,
                   output, parsed>>

(***************************************************************************)
(* run_legacy_mode (run_benchmark.py) and main (ci_benchmark.py)           *)
(***************************************************************************)
\* variant: a timeout is counted as an error
CountResult_TimeoutAsError(metrics) ==
    IF metrics.solved
    THEN /\ solved_count' = solved_count + 1
         /\ UNCHANGED <<timeout_count, error_count>>
    ELSE /\ error_count' = error_count + 1
         /\ UNCHANGED <<solved_count, timeout_count>>

\* the counters after one run_level result in the directory-scan loops
CountResult(metrics) ==
    IF metrics.solved
    THEN /\ solved_count' = solved_count + 1
         /\ UNCHANGED <<timeout_count, error_count>>
    ELSE IF metrics.status = "Timeout"
    THEN /\ timeout_count' = timeout_count + 1
         /\ UNCHANGED <<solved_count, error_count>>
    ELSE /\ error_count' = error_count + 1
         /\ UNCHANGED <<solved_count, timeout_count>>

\* run_legacy_mode: levels = sorted(glob(...)); the filter applies if args.filter
LegacyDiscover ==
    /\ pc = "discover" /\ mode = "legacy"
    /\ levels' = IF args.filter.given /\ Len(args.filter.prefix) > 0
                 THEN FilterLevels(SortedFiles(files), args.filter.prefix)
                 ELSE SortedFiles(files)
    /\ IF levels' = << >> THEN Exit(1, "No levels found")
       ELSE Goto("legacy_loop")
    /\ UNCHANGED <<mode, args, files, book, tasks, idx, task_results, results,
                   solved_count, skip_count, timeout_count, error_count, n_calls,
                   last_call, last_proc, last_metrics, xlsx_saved,
                   report_written, output, parsed>>

\* ci_benchmark main: the filter always applies
CiDiscover ==
    /\ pc = "discover" /\ mode = "ci"
    /\ levels' = FilterLevels(SortedFiles(files), args.filter.prefix)
    /\ IF levels' = << >> THEN Exit(1, "No levels found")
       ELSE Goto("ci_loop")
    /\ UNCHANGED <<mode, args, files, book, tasks, idx, task_results, results,
                   solved_count, skip_count, timeout_count, error_count, n_calls,
                   last_call, last_proc, last_metrics, xlsx_saved,
                   report_written, output, parsed>>

\* variant: the outcome of a call that raised is not appended
RunLevelOf_DropException(lvl) ==
    \E proc \in BatchProcs(args.timeout) :
        \E metrics \in {run_level(proc, args.timeout)} :
            /\ last_call' = [level |-> lvl, strategy |-> args.strategy,
                             timeout |-> args.timeout]
            /\ last_proc' = proc
            /\ last_metrics' = metrics
            /\ results' = IF metrics.status = "Exception" THEN results
                          ELSE Append(results, [level_name |-> LevelName(lvl),
                                                metrics |-> metrics])
            /\ CountResult(metrics)

\* the body of "for lvl in levels", the same in both scripts
RunLevelOf(lvl) ==
    \E proc \in BatchProcs(args.timeout) :
        \E metrics \in {run_level(proc, args.timeout)} :
            /\ last_call' = [level |-> lvl, strategy |-> args.strategy,
                             timeout |-> args.timeout]
            /\ last_proc' = proc
            /\ last_metrics' = metrics
            /\ results' = Append(results, [level_name |-> LevelName(lvl),
                                           metrics |-> metrics])
            /\ CountResult(metrics)

\* run_legacy_mode: one iteration of the loop
LegacyRunTask ==
    /\ pc = "legacy_loop" /\ idx < Len(levels)
    /\ RunLevelOf(levels[idx + 1])
    /\ n_calls' = n_calls + 1
    /\ idx' = idx + 1
    /\ UNCHANGED <<mode, args, files, book, pc, tasks, levels, task_results,
                   skip_count, xlsx_saved, report_written, exit_status,
                   error_msg, output, parsed>>

\* ci_benchmark main: one iteration of the loop
CiRunTask ==
    /\ pc = "ci_loop" /\ idx < Len(levels)
    /\ RunLevelOf(levels[idx + 1])
    /\ n_calls' = n_calls + 1
    /\ idx' = idx + 1
    /\ UNCHANGED <<mode, args, files, book, pc, tasks, levels, task_results,
                   skip_count, xlsx_saved, report_written, exit_status,
                   error_msg, output, parsed>>

\* the end of a directory-scan run: report, then "if solved_count < len(levels)"
FinalStatus(write_ok) ==
    IF ~write_ok THEN UNCHANGED report_written /\ Exit(1, "writing results file")
    ELSE /\ report_written' = TRUE
         /\ Exit(IF solved_count < Len(levels) THEN 1 ELSE 0, "none")

\* run_legacy_mode: report and exit status
LegacyReport ==
    /\ pc = "legacy_loop" /\ idx = Len(levels)
    /\ \E write_ok \in BOOLEAN : FinalStatus(write_ok)
    /\ UNCHANGED <<mode, args, files, book, tasks, levels, idx, task_results,
                   results, solved_count, skip_count, timeout_count, error_count,
                   n_calls, last_call, last_proc, last_metrics, xlsx_saved,
                   output, parsed>>

\* ci_benchmark main: report and exit status
CiReport ==
    /\ pc = "ci_loop" /\ idx = Len(levels)
    /\ \E write_ok \in BOOLEAN : FinalStatus(write_ok)
    /\ UNCHANGED <<mode, args, files, book, tasks, levels, idx, task_results,
                   results, solved_count, skip_count, timeout_count, error_count,
                   n_calls, last_call, last_proc, last_metrics, xlsx_saved,
                   output, parsed>>

Next ==
    \/ ParseArgs
    \/ CheckServerJar
    \/ CompileClient
    \/ CheckClassFiles
    \/ ReadXlsx
    \/ XlsxSkipTask
    \/ XlsxRunTask
    \/ WriteXlsxResults
    \/ XlsxReport
    \/ LegacyDiscover
    \/ LegacyRunTask
    \/ LegacyReport
    \/ CiDiscover
    \/ CiRunTask
    \/ CiReport

Spec == Init /\ [][Next]_vars

\* every script runs to its end: no step waits for anything but the process
\* deadline, which subprocess.run enforces
FairSpec == Spec /\ WF_vars(Next)

(***************************************************************************)
(* parse_output alone, on every output of at most MaxLines lines           *)
(***************************************************************************)
ParseOnlyInit ==
    /\ pc = "parse_only"
    /\ mode = "legacy"
    /\ args = [strategy |-> DEFAULT_STRATEGY, timeout |-> DEFAULT_TIMEOUT,
               filter |-> NoFilter]
    /\ files = {}
    /\ book = << >>
    /\ Idle
    /\ output \in ParseOutputs
    /\ parsed = NotParsed

ParseOutput ==
    /\ pc = "parse_only"
    /\ ~parsed.done
    /\ parsed' = [done |-> TRUE, metrics |-> parse_output(output)]
    /\ UNCHANGED <<mode, args, files, book, pc, batch_vars, exit_status, error_msg,
                   output>>

ParseNext == ParseOutput

ParseSpec == ParseOnlyInit /\ [][ParseNext]_vars

(***************************************************************************)
(* Properties                                                              *)
(***************************************************************************)
\* the resolved task list of the mode
TaskList == IF mode = "xlsx" THEN tasks ELSE levels

\* the recorded outcomes, in the order they were appended
Outcomes ==
    IF mode = "xlsx"
    THEN [i \in 1..Len(task_results) |-> task_results[i].metrics]
    ELSE [i \in 1..Len(results) |-> results[i].metrics]

LoopPcs == {"xlsx_loop", "legacy_loop", "ci_loop"}

\* the batch loop was entered and has ended, and the process has exited
BatchCompleted == pc = "exited" /\ TaskList # << >> /\ idx = Len(TaskList)

IsSolved(m) == m # NoMetrics /\ m.status = "Solved"

\* C1: in every mode, after the batch ran to completion the exit status is zero
\* only if every task reached Solved (non-zero when a task errored, found no
\* solution, timed out or was skipped).
C1_ExitZeroOnlyIfAllSolved ==
    (BatchCompleted /\ exit_status = 0)
        => \A i \in 1..Len(Outcomes) : IsSolved(Outcomes[i])

\* C2: every call of run_level is made with a strategy of VALID_STRATEGIES.
C2_RunLevelStrategyValid ==
    n_calls > 0 => last_call.strategy \in VALID_STRATEGIES

\* C3: a structured-table task whose level file is not found is recorded as
\* Skipped with no metrics, without a call of run_level, without a process
\* and without a wall time, and the loop goes on with the next task.
C3_MissingLevelIsSkipped ==
    [][(pc = "xlsx_loop" /\ idx < Len(tasks) /\ tasks[idx + 1].level \notin files)
        => /\ task_results' = Append(task_results,
                                     [task |-> tasks[idx + 1], metrics |-> NoMetrics])
           /\ n_calls' = n_calls
           /\ last_proc' = last_proc /\ last_metrics' = last_metrics
           /\ idx' = idx + 1
           /\ pc' = "xlsx_loop" /\ exit_status' = -1]_vars

\* a task was skipped, and the task after it was then processed
C3_Witness ==
    \E i \in 1..Len(task_results) :
        /\ task_results[i].metrics = NoMetrics
        /\ task_results[i].task.level \notin files
        /\ i < Len(task_results)
        /\ n_calls < Len(task_results)

\* the latest call of run_level saw the process exit before the hard deadline
ExitedInTime ==
    /\ n_calls > 0
    /\ ~last_proc.raises
    /\ last_proc.duration <= (last_call.timeout + GRACE) * 10

\* the solved flag the extractor gives for the output of the latest process
ExtractorSolved == parse_output(last_proc.stdout \o last_proc.stderr).solved

\* C4: when the process exits before the hard deadline, the status follows
\* from (exit code, solved flag): non-zero and not solved is Error; solved
\* is Solved, also with a non-zero exit code; zero and not solved is
\* No solution.
C4_ClassificationPriority ==
    ExitedInTime =>
        /\ last_metrics.status \in {"Error", "Solved", "No solution"}
        /\ (last_proc.returncode # 0 /\ ~ExtractorSolved)
              => last_metrics.status = "Error"
        /\ ExtractorSolved => last_metrics.status = "Solved"
        /\ (last_proc.returncode = 0 /\ ~ExtractorSolved)
              => last_metrics.status = "No solution"

\* a solved run whose process exited with a non-zero code
C4_Witness ==
    /\ ExitedInTime
    /\ last_proc.returncode # 0
    /\ ExtractorSolved
    /\ last_metrics.status = "Solved"

\* the latest call of run_level found the process still running at the hard deadline
HitDeadline ==
    /\ n_calls > 0
    /\ ~last_proc.raises
    /\ last_proc.duration > (last_call.timeout + GRACE) * 10

\* the number of seconds a ">N" wall time names
WallBound(m) == StrToInt(RemoveChar(m.wall_time, ">"))

\* C5 (as claimed): a process still running at the hard deadline gives Timeout
\* with solved = false whatever it printed, and the recorded wall_time
\* reflects the deadline-plus-grace bound; a process that exits at or before
\* the hard deadline is never Timeout.
C5_TimeoutReflectsGraceBound ==
    /\ HitDeadline =>
          /\ last_metrics.status = "Timeout"
          /\ last_metrics.solved = FALSE
          /\ WallBound(last_metrics) = last_call.timeout + GRACE
    /\ ExitedInTime => last_metrics.status # "Timeout"

\* C5 (amended): a process still running at the hard deadline gives Timeout
\* with solved = false whatever it printed, and the recorded wall_time and
\* time are the text ">" followed by the configured timeout, without the
\* grace margin; a process that exits at or before the hard deadline is
\* never Timeout.
C5_TimeoutAtConfiguredBound ==
    /\ HitDeadline =>
          /\ last_metrics.status = "Timeout"
          /\ last_metrics.solved = FALSE
          /\ last_metrics.wall_time = <<">">> \o IntToStr(last_call.timeout)
          /\ last_metrics.time = <<">">> \o IntToStr(last_call.timeout)
          /\ WallBound(last_metrics) = last_call.timeout
    /\ ExitedInTime => last_metrics.status # "Timeout"

\* a timed-out process whose partial output holds a solution marker
C5_Witness ==
    /\ HitDeadline
    /\ \E i \in 1..Len(last_proc.stdout \o last_proc.stderr) :
          Contains((last_proc.stdout \o last_proc.stderr)[i], FOUND_MARK)
    /\ last_metrics.status = "Timeout"

\* line i has a solution marker, a later line j has the failure marker, and
\* no line after j has a solution marker
StaleSuccess(lines, i, j) ==
    /\ i < j
    /\ Contains(lines[i], FOUND_MARK)
    /\ Contains(lines[j], UNABLE_MARK)
    /\ \A k \in (j + 1)..Len(lines) : ~Contains(lines[k], FOUND_MARK)

\* C6: when a line with the solution marker is followed later by a line with
\* the failure marker, and no solution marker comes after that, parse_output
\* returns solved = false.
C6_LaterFailureOverridesSuccess ==
    (parsed.done /\ \E i, j \in 1..Len(output) : StaleSuccess(output, i, j))
        => parsed.metrics.solved = FALSE

\* such an output was parsed, with a further line after the failure marker
C6_Witness ==
    /\ parsed.done
    /\ \E i, j \in 1..Len(output) : StaleSuccess(output, i, j) /\ j < Len(output)
    /\ parsed.metrics.solved = FALSE

\* the batch loop has been entered and left
LoopDone == TaskList # << >> /\ pc \notin LoopPcs

\* the k-th recorded outcome belongs to the k-th resolved task
BelongsTo(k) ==
    IF mode = "xlsx" THEN task_results[k].task = tasks[k]
    ELSE results[k].level_name = levels[k]

\* one outcome per processed task, in task order
ResultsAligned ==
    /\ Len(Outcomes) = idx
    /\ \A k \in 1..Len(Outcomes) : BelongsTo(k)

\* C7: whatever the outcomes of the tasks are, the batch loop eventually has
\* processed every task (no Timeout, Error or Exception ends it early), and
\* when it ends there is exactly one outcome per task, the i-th outcome
\* belonging to the i-th resolved task.
C7_BatchProcessesEveryTask ==
    /\ (pc \in LoopPcs) ~> (LoopDone /\ idx = Len(TaskList))
    /\ [](pc \in LoopPcs => ResultsAligned)
    /\ [](LoopDone => (ResultsAligned /\ Len(Outcomes) = Len(TaskList)))

\* a batch of several tasks has ended although an earlier task timed out,
\* failed or raised
C7_Witness ==
    /\ LoopDone
    /\ Len(Outcomes) = Len(TaskList)
    /\ \E i \in 1..Len(Outcomes) :
          /\ i < Len(Outcomes)
          /\ Outcomes[i] # NoMetrics
          /\ Outcomes[i].status \in {"Timeout", "Error", "Exception"}

\* the row of the table a task came from
RowOf(b, task) ==
    b[CHOOSE k \in 1..Len(b) : b[k].title = task.sheet].rows[task.row - 1]

\* the result columns of a row
ResultCells(row) == <<row.generated, row.time, row.solution_length>>

\* the value of a metrics field next to the cell written for it
CellHolds(val, cell) ==
    /\ val = UNKNOWN => cell = Blank
    /\ val # UNKNOWN => cell # Blank
    /\ cell.t = "str" => cell.s = val /\ ~IsIntLiteral(val) /\ ~IsFloatLiteral(val)
    /\ cell.t = "int" => IsIntLiteral(val) /\ cell.n = IntValue(val)
    /\ cell.t = "float" => IsFloatLiteral(val) /\ cell = FloatValue(val)

\* C8 (as claimed): after write-back every result cell of the table is a
\* number or blank; text is never stored.
C8_OnlyNumbersOrBlank ==
    xlsx_saved =>
        \A k \in 1..Len(book) : \A r \in 1..Len(book[k].rows) :
            \A c \in 1..3 :
                ResultCells(book[k].rows[r])[c].t \in {"none", "int", "float"}

\* C8 (amended): after write-back, for every task that has an outcome, each
\* result cell is blank exactly when the value is the "-" placeholder, is the
\* number when int() or float() accepts the value, and is otherwise the
\* value's text unchanged; the time cell of a Timeout outcome is the text
\* ">" followed by the timeout.
C8_NumberBlankOrTextAsIs ==
    xlsx_saved =>
        \A i \in 1..Len(task_results) :
            task_results[i].metrics # NoMetrics =>
                /\ CellHolds(task_results[i].metrics.generated,
                             RowOf(book, task_results[i].task).generated)
                /\ CellHolds(task_results[i].metrics.time,
                             RowOf(book, task_results[i].task).time)
                /\ CellHolds(task_results[i].metrics.solution_length,
                             RowOf(book, task_results[i].task).solution_length)
                /\ task_results[i].metrics.status = "Timeout" =>
                       RowOf(book, task_results[i].task).time =
                           Text(<<">">> \o IntToStr(args.timeout))

\* the table was saved with a Timeout row whose time is text and another row
\* whose time is a number
C8_Witness ==
    /\ xlsx_saved
    /\ \E i, j \in 1..Len(task_results) :
          /\ task_results[i].metrics # NoMetrics
          /\ task_results[i].metrics.status = "Timeout"
          /\ RowOf(book, task_results[i].task).time.t = "str"
          /\ task_results[j].metrics # NoMetrics
          /\ RowOf(book, task_results[j].task).time.t = "float"
          /\ RowOf(book, task_results[j].task).generated.t = "int"

\* row r of sheet k yielded a task / a task that has an outcome
IsTaskAt(k, r) ==
    \E i \in 1..Len(task_results) :
        /\ task_results[i].task.sheet = book[k].title
        /\ task_results[i].task.row = r + 1

HasOutcomeAt(k, r) ==
    \E i \in 1..Len(task_results) :
        /\ task_results[i].metrics # NoMetrics
        /\ task_results[i].task.sheet = book[k].title
        /\ task_results[i].task.row = r + 1

\* C9 (as claimed): after write-back the row of every task, Skipped tasks
\* included, no longer holds the result values it had before the batch, and
\* the rows that yielded no task still hold them.
C9_EveryTaskRowUpdated ==
    xlsx_saved =>
        \A k \in 1..Len(book) : \A r \in 1..Len(book[k].rows) :
            IF IsTaskAt(k, r)
            THEN ResultCells(book[k].rows[r]) # <<Stale, Stale, Stale>>
            ELSE ResultCells(book[k].rows[r]) = <<Stale, Stale, Stale>>

\* C9 (amended): write-back updates, in its own sheet and row, the result
\* columns of every task that has an outcome with that outcome's generated,
\* time and solution length; the row of a Skipped task and every row that
\* yielded no task are left as they were, and no level or strategy cell,
\* sheet or row is added, removed or changed.
C9_OutcomeRowsUpdated ==
    [][(~xlsx_saved /\ xlsx_saved') =>
        /\ Len(book') = Len(book)
        /\ \A k \in 1..Len(book) :
              /\ book'[k].title = book[k].title
              /\ Len(book'[k].rows) = Len(book[k].rows)
              /\ \A r \in 1..Len(book[k].rows) :
                    /\ book'[k].rows[r].level = book[k].rows[r].level
                    /\ book'[k].rows[r].strategy = book[k].rows[r].strategy
                    /\ ~HasOutcomeAt(k, r) => book'[k].rows[r] = book[k].rows[r]
                    /\ \A i \in 1..Len(task_results) :
                          (/\ task_results[i].metrics # NoMetrics
                           /\ task_results[i].task.sheet = book[k].title
                           /\ task_results[i].task.row = r + 1) =>
                              ResultCells(book'[k].rows[r]) =
                                  <<_to_number(task_results[i].metrics.generated),
                                    _to_number(task_results[i].metrics.time),
                                    _to_number(task_results[i].metrics.solution_length)>>
    ]_vars

\* a saved table of two sheets: the task of the second sheet has its outcome
\* in its own row, and the first sheet has a Skipped task whose row was left
\* as it was
C9_Witness ==
    /\ xlsx_saved
    /\ Len(book) = 2
    /\ \E i, j \in 1..Len(task_results) :
          /\ task_results[i].task.sheet = "Sheet2"
          /\ task_results[i].metrics # NoMetrics
          /\ ResultCells(RowOf(book, task_results[i].task)) # <<Stale, Stale, Stale>>
          /\ task_results[j].task.sheet = "Sheet1"
          /\ task_results[j].metrics = NoMetrics
          /\ ResultCells(RowOf(book, task_results[j].task)) = <<Stale, Stale, Stale>>

\* the diagnostics of a configuration-level problem
ConfigDiagnostics ==
    {"invalid choice", "server.jar not found", "No .class files",
     "No tasks found", "No levels found"}

\* C10: in a run with a configuration-level problem (server artifact missing,
\* no compiled client classes, empty task list, invalid strategy) run_level is
\* never called, no report and no write-back is produced, and the exit status
\* is non-zero.
C10_ConfigProblemStopsBeforeTasks ==
    (\/ error_msg \in ConfigDiagnostics
     \/ args.strategy \notin VALID_STRATEGIES
     \/ \E i \in 1..Len(tasks) : tasks[i].strategy \notin VALID_STRATEGIES) =>
        /\ n_calls = 0
        /\ ~report_written
        /\ ~xlsx_saved
        /\ pc = "exited" => exit_status # 0

\* the text of a non-negative integer
IsNatText(s) == Len(s) > 0 /\ \A i \in 1..Len(s) : s[i] \in Digits

\* C11: every outcome produced for a task carries a solution length (a
\* non-negative integer) when its status is Solved, and the unknown marker
\* when its status is anything else, also when a solution marker came before
\* a later failure marker.
C11_SolutionLengthIffSolved ==
    \A k \in 1..Len(Outcomes) :
        Outcomes[k] # NoMetrics =>
            IF Outcomes[k].status = "Solved"
            THEN IsNatText(Outcomes[k].solution_length)
            ELSE Outcomes[k].solution_length = UNKNOWN

\* the fields a statistics line can report
StatsFields == {"expanded", "generated", "time"}

\* the match of field f in a line
FieldMatch(f, line) ==
    CASE f = "expanded" -> SearchCount(line, EXPANDED_MARK, Digits \cup {","})
      [] f = "generated" -> SearchCount(line, GENERATED_MARK, Digits \cup {","})
      [] f = "time" -> SearchTime(line)

\* the line is a statistics line and reports field f
Reports(f, line) == Contains(line, EXPANDED_MARK) /\ FieldMatch(f, line).ok

\* the value a statistics line reports for field f
FieldValue(f, line) ==
    IF f = "time" THEN FieldMatch(f, line).group
    ELSE RemoveChar(FieldMatch(f, line).group, ",")

\* the last line of the output that reports field f, 0 when there is none
LastReport(f, lines) ==
    IF \E i \in 1..Len(lines) : Reports(f, lines[i])
    THEN CHOOSE i \in 1..Len(lines) :
            /\ Reports(f, lines[i])
            /\ \A j \in (i + 1)..Len(lines) : ~Reports(f, lines[j])
    ELSE 0

\* C12: for each of expanded, generated and time, parse_output returns the
\* value of the last statistics line (a line containing "#Expanded:") that
\* reports the field, and unknown when no statistics line reports it; a
\* later statistics line that omits the field does not reset it.
C12_StatsMergedFieldByField ==
    parsed.done =>
        \A f \in StatsFields :
            IF LastReport(f, output) = 0
            THEN parsed.metrics[f] = UNKNOWN
            ELSE parsed.metrics[f] = FieldValue(f, output[LastReport(f, output)])

\* two statistics lines were parsed of which the later one omits generated
\* and reports another expanded count
C12_Witness ==
    /\ parsed.done
    /\ \E i, j \in 1..Len(output) :
          /\ i < j
          /\ Reports("generated", output[i]) /\ Reports("expanded", output[i])
          /\ Contains(output[j], EXPANDED_MARK)
          /\ ~Reports("generated", output[j]) /\ Reports("expanded", output[j])
          /\ j = Len(output)
          /\ parsed.metrics.generated = FieldValue("generated", output[i])
          /\ parsed.metrics.expanded = FieldValue("expanded", output[j])
          /\ parsed.metrics.expanded # FieldValue("expanded", output[i])

\* the text of a decimal number: digits with at most one point
IsDecimalText(s) ==
    /\ \A i \in 1..Len(s) : s[i] \in Digits \cup {"."}
    /\ \E i \in 1..Len(s) : s[i] \in Digits
    /\ \A i, j \in 1..Len(s) : (s[i] = "." /\ s[j] = ".") => i = j

\* a value of field f that is a number
WellFormed(f, val) == IF f = "time" THEN IsDecimalText(val) ELSE IsNatText(val)

\* C13: parse_output returns a record for every output, no numeric field of
\* the record holds malformed text (a field is a number or the unknown
\* marker), and a malformed value in one field does not keep the well-formed
\* values of the other fields from being extracted.
C13_MalformedFieldIsUnknown ==
    parsed.done =>
        /\ \A f \in StatsFields \cup {"solution_length"} :
              parsed.metrics[f] = UNKNOWN \/ WellFormed(f, parsed.metrics[f])
        /\ \A f \in StatsFields :
              (/\ LastReport(f, output) # 0
               /\ WellFormed(f, FieldValue(f, output[LastReport(f, output)]))) =>
                  parsed.metrics[f] = FieldValue(f, output[LastReport(f, output)])

\* the positions of the recorded outcomes of each class
SolvedAt == {k \in 1..Len(Outcomes) : IsSolved(Outcomes[k])}

TimeoutAt ==
    {k \in 1..Len(Outcomes) :
        Outcomes[k] # NoMetrics /\ Outcomes[k].status = "Timeout"}

SkippedAt == {k \in 1..Len(Outcomes) : Outcomes[k] = NoMetrics}

OtherAt == (1..Len(Outcomes)) \ (SolvedAt \cup TimeoutAt \cup SkippedAt)

\* C14: at every point of a run the counters partition the outcomes recorded
\* so far: each counter is the number of recorded outcomes of its class
\* (Solved, Timeout, Skipped, all the rest), their sum is the number of
\* recorded outcomes, and after the loop it is the number of tasks.
C14_CountersPartitionOutcomes ==
    /\ solved_count = Cardinality(SolvedAt)
    /\ timeout_count = Cardinality(TimeoutAt)
    /\ skip_count = Cardinality(SkippedAt)
    /\ error_count = Cardinality(OtherAt)
    /\ solved_count + timeout_count + error_count + skip_count = Len(Outcomes)
    /\ mode # "xlsx" => skip_count = 0
    /\ LoopDone =>
          solved_count + timeout_count + error_count + skip_count = Len(TaskList)

\* a batch has ended with solved, timed-out and failed tasks
C14_Witness ==
    /\ LoopDone
    /\ solved_count > 0 /\ timeout_count > 0 /\ error_count > 0
    /\ solved_count + timeout_count + error_count = Len(TaskList)
====
